---- MODULE Spec2Model ----
(***************************************************************************)
(* The linalg Core dispatch layer of shogun                               *)
(* (src/shogun/mathematics/linalg/internal/modules/Core.h).               *)
(*                                                                         *)
(* Every function of Core.h is a template whose body is one statement:    *)
(* a call of implementation::<module><backend, Matrix>::compute with the  *)
(* function's parameters.  The model keeps, per call, the request the     *)
(* caller wrote (operation, explicit backend or none, the arguments it    *)
(* supplied), what the build made of it (rejected, or bound to one        *)
(* compute invocation) and what compute did to the caller's containers.   *)
(* The implementation modules (Add.h, Scale.h, ...) are not part of       *)
(* Core.h; their compute is modelled from the specification.              *)
(***************************************************************************)
EXTENDS Integers, Sequences, FiniteSets, TLC

\* ------------------------------------------------------------------ bounds
\* Scalar coefficients a caller supplies range over -MaxScalar..MaxScalar.
MaxScalar == 2
\* Strides a caller supplies range over 1..MaxStride.
MaxStride == 2
\* Concurrent callers of the interleaved specification.
NumCallers == 2

\* ---------------------------------------------------------------- matrices
\* A dense container's contents: a sequence of rows of equal length.
Rows(M) == Len(M)
Cols(M) == Len(M[1])
SameShape(M, N) == Rows(M) = Rows(N) /\ Cols(M) = Cols(N)

M1234 == << <<1, 2>>, <<3, 4>> >>
M5678 == << <<5, 6>>, <<7, 8>> >>
MOut == << <<1, 1>>, <<0, 2>> >>
K103 == << <<1, 0, 2>> >>
NoMatrix == << >>

\* The caller-owned containers: handles into the caller's storage.  A
\* container is passed by value as a handle that shares its storage.
Handles == 1 .. 4
InitialHeap == << M1234, M5678, MOut, K103 >>

Scalars == (0 - MaxScalar) .. MaxScalar
Strides == 1 .. MaxStride
Backends == {"NATIVE", "EIGEN3", "VIENNACL"}
NoBackend == "default"
Callers == 1 .. NumCallers

VARIABLES
    HAVE_LINALG_LIB,    \* build: the extended-backend capability flag
    default_backend,    \* build: linalg_traits<Core>::backend
    available,          \* build: backends whose implementation modules exist
    heap,               \* the callers' containers: handle -> contents
    last,               \* sequential program: the call made and its outcome
    thr                 \* interleaved program: each caller's position

vars == << HAVE_LINALG_LIB, default_backend, available, heap, last, thr >>


\* ------------------------------------------------- the dispatch functions
\* Each returns the one compute invocation its body makes: the
\* implementation module, the backend template argument and the arguments
\* in the order the body passes them.
Invocation(module, backend, args) ==
    [module |-> module, backend |-> backend, args |-> args]

add_swapped_coefficients(backend, A, B, C, alpha, beta) ==
    Invocation("add", backend, <<A, B, C, beta, alpha>>)

add(backend, A, B, C, alpha, beta) ==
    Invocation("add", backend, <<A, B, C, alpha, beta>>)

matrix_product_swapped_flags(backend, A, B, C, transpose_A, transpose_B, overwrite) ==
    Invocation("matrix_product", backend,
               <<A, B, C, transpose_A, overwrite, transpose_B>>)

matrix_product(backend, A, B, C, transpose_A, transpose_B, overwrite) ==
    Invocation("matrix_product", backend,
               <<A, B, C, transpose_A, transpose_B, overwrite>>)

subtract_unnegated(backend, A, B, C, alpha, beta) ==
    Invocation("add", backend, <<A, B, C, alpha, beta>>)

subtract(backend, A, B, C, alpha, beta) ==
    Invocation("add", backend, <<A, B, C, alpha, (0 - 1) * beta>>)

scale(backend, A, B, alpha) ==
    Invocation("scale", backend, <<A, B, alpha>>)

elementwise_product(backend, A, B, C) ==
    Invocation("elementwise_product", backend, <<A, B, C>>)

\* The allocating overload, elementwise_square(m).
elementwise_square(backend, m) ==
    Invocation("elementwise_square", backend, <<m>>)

elementwise_square_result_swapped(backend, m, result) ==
    Invocation("elementwise_square", backend, <<result, m>>)

\* The non-allocating overload, elementwise_square(m, result).
elementwise_square_result(backend, m, result) ==
    Invocation("elementwise_square", backend, <<m, result>>)

convolve_swapped_strides(backend, X, W, Y, flip, overwrite, stride_x, stride_y) ==
    Invocation("convolve", backend,
               <<X, W, Y, flip, overwrite, stride_y, stride_x>>)

convolve(backend, X, W, Y, flip, overwrite, stride_x, stride_y) ==
    Invocation("convolve", backend,
               <<X, W, Y, flip, overwrite, stride_x, stride_y>>)

Operations ==
    {"add", "subtract", "scale", "elementwise_product", "elementwise_square",
     "elementwise_square_result", "matrix_product", "convolve"}

\* The number of parameters of each function's signature.
NumParams(op) ==
    CASE op = "add" -> 5
      [] op = "subtract" -> 5
      [] op = "scale" -> 3
      [] op = "elementwise_product" -> 3
      [] op = "elementwise_square" -> 1
      [] op = "elementwise_square_result" -> 2
      [] op = "matrix_product" -> 6
      [] op = "convolve" -> 7

DefaultArgs_scale_defaulted(op) ==
    CASE op = "add" -> <<1, 1>>
      [] op = "subtract" -> <<1, 1>>
      [] op = "scale" -> <<1>>
      [] op = "matrix_product" -> <<FALSE, FALSE, TRUE>>
      [] op = "convolve" -> <<FALSE, TRUE, 1, 1>>
      [] OTHER -> << >>

\* The default arguments of each signature: the values of its trailing
\* parameters that a call may leave out.
DefaultArgs(op) ==
    CASE op = "add" -> <<1, 1>>
      [] op = "subtract" -> <<1, 1>>
      [] op = "matrix_product" -> <<FALSE, FALSE, TRUE>>
      [] op = "convolve" -> <<FALSE, TRUE, 1, 1>>
      [] OTHER -> << >>

NumRequired(op) == NumParams(op) - Len(DefaultArgs(op))

\* Overload resolution of the call expression: the argument count must fit
\* the signature.
Viable(op, supplied) ==
    /\ Len(supplied) >= NumRequired(op)
    /\ Len(supplied) <= NumParams(op)

\* The parameters of the call: the supplied arguments, then the default of
\* every parameter left out.
Bind(op, supplied) ==
    supplied \o SubSeq(DefaultArgs(op),
                       Len(supplied) - NumRequired(op) + 1,
                       Len(DefaultArgs(op)))

Declared_ungated(op) == TRUE

\* add is declared unconditionally, everything else inside
\* #ifdef HAVE_LINALG_LIB.
Declared(op) == op = "add" \/ HAVE_LINALG_LIB

ResolveBackend_ignores_tag(tag) == default_backend

\* The template parameter backend: the explicit argument, else
\* linalg_traits<Core>::backend.
ResolveBackend(tag) == IF tag = NoBackend THEN default_backend ELSE tag

\* The body of the function the call names, instantiated with the bound
\* parameters p.
Instantiate(op, backend, p) ==
    CASE op = "add" -> add(backend, p[1], p[2], p[3], p[4], p[5])
      [] op = "subtract" -> subtract(backend, p[1], p[2], p[3], p[4], p[5])
      [] op = "scale" -> scale(backend, p[1], p[2], p[3])
      [] op = "elementwise_product" ->
            elementwise_product(backend, p[1], p[2], p[3])
      [] op = "elementwise_square" -> elementwise_square(backend, p[1])
      [] op = "elementwise_square_result" ->
            elementwise_square_result(backend, p[1], p[2])
      [] op = "matrix_product" ->
            matrix_product(backend, p[1], p[2], p[3], p[4], p[5], p[6])
      [] op = "convolve" ->
            convolve(backend, p[1], p[2], p[3], p[4], p[5], p[6], p[7])

\* An implementation module is specialised for the backends the build
\* provides; the generic template has no usable compute.
Specialised(module, backend) == backend \in available

\* Whether the build accepts the call expression of request req.
Compiles(req) ==
    /\ Declared(req.op)
    /\ Viable(req.op, req.args)
    /\ Specialised(Instantiate(req.op, ResolveBackend(req.tag),
                               Bind(req.op, req.args)).module,
                   ResolveBackend(req.tag))


\* --------------------------------------------- the implementation modules
\* compute of each module, from the specification: what it does to the
\* containers h, as the set of outcomes it can have.
Ok(h, r) == [status |-> "ok", error |-> "none", heap |-> h, ret |-> r]
Fail(h, e) == [status |-> "failed", error |-> e, heap |-> h, ret |-> NoMatrix]

LinComb(alpha, A, beta, B) ==
    [i \in 1 .. Rows(A) |-> [j \in 1 .. Cols(A) |->
        alpha * A[i][j] + beta * B[i][j]]]

Transpose(M) ==
    [i \in 1 .. Cols(M) |-> [j \in 1 .. Rows(M) |-> M[j][i]]]

Op(M, transposed) == IF transposed THEN Transpose(M) ELSE M

RECURSIVE Dot(_, _, _, _, _)
\* sum over k = 1..n of A[i][k] * B[k][j]
Dot(A, B, i, j, n) ==
    IF n = 0 THEN 0 ELSE A[i][n] * B[n][j] + Dot(A, B, i, j, n - 1)

MatMul(A, B) ==
    [i \in 1 .. Rows(A) |-> [j \in 1 .. Cols(B) |-> Dot(A, B, i, j, Cols(A))]]

MatAdd(A, B) == LinComb(1, A, 1, B)

CeilDiv(n, d) == (n + d - 1) \div d

RECURSIVE ConvSum(_, _, _, _, _, _)
\* The weighted sum over the first n cells of the kernel W centred on
\* X[y][x]; cells outside X count as zero.  Unflipped, the kernel is
\* reflected along both axes (convolution); flipped, it is applied as it
\* is (cross-correlation).
ConvSum(X, W, flip, y, x, n) ==
    IF n = 0 THEN 0
    ELSE LET a == (n - 1) \div Cols(W)
             b == (n - 1) % Cols(W)
             y1 == y - ((Rows(W) - 1) \div 2) + a
             x1 == x - ((Cols(W) - 1) \div 2) + b
             wy == IF flip THEN a + 1 ELSE Rows(W) - a
             wx == IF flip THEN b + 1 ELSE Cols(W) - b
             term == IF y1 >= 1 /\ y1 <= Rows(X) /\ x1 >= 1 /\ x1 <= Cols(X)
                     THEN W[wy][wx] * X[y1][x1] ELSE 0
         IN term + ConvSum(X, W, flip, y, x, n - 1)

Convolution(X, W, Y, flip, overwrite, stride_x, stride_y) ==
    [i \in 1 .. Rows(Y) |-> [j \in 1 .. Cols(Y) |->
        (IF overwrite THEN 0 ELSE Y[i][j])
        + ConvSum(X, W, flip, (i - 1) * stride_y + 1, (j - 1) * stride_x + 1,
                  Rows(W) * Cols(W))]]

add_compute(h, A, B, C, alpha, beta) ==
    IF SameShape(h[A], h[B]) /\ SameShape(h[A], h[C])
    THEN {Ok([h EXCEPT ![C] = LinComb(alpha, h[A], beta, h[B])], NoMatrix)}
    ELSE {Fail(h, "shape_mismatch")}

scale_compute(h, A, B, alpha) ==
    IF SameShape(h[A], h[B])
    THEN {Ok([h EXCEPT ![B] = LinComb(alpha, h[A], 0, h[A])], NoMatrix)}
    ELSE {Fail(h, "shape_mismatch")}

elementwise_product_compute(h, A, B, C) ==
    IF SameShape(h[A], h[B]) /\ SameShape(h[A], h[C])
    THEN {Ok([h EXCEPT ![C] =
                [i \in 1 .. Rows(h[A]) |-> [j \in 1 .. Cols(h[A]) |->
                    h[A][i][j] * h[B][i][j]]]], NoMatrix)}
    ELSE {Fail(h, "shape_mismatch")}

\* compute(m): returns a newly constructed container.
elementwise_square_compute(h, m) ==
    {Ok(h, [i \in 1 .. Rows(h[m]) |-> [j \in 1 .. Cols(h[m]) |->
                h[m][i][j] * h[m][i][j]]])}

\* compute(m, result): writes into the caller's result.
elementwise_square_compute_result(h, m, result) ==
    IF SameShape(h[m], h[result])
    THEN {Ok([h EXCEPT ![result] =
                [i \in 1 .. Rows(h[m]) |-> [j \in 1 .. Cols(h[m]) |->
                    h[m][i][j] * h[m][i][j]]]], NoMatrix)}
    ELSE {Fail(h, "shape_mismatch")}

matrix_product_compute(h, A, B, C, transpose_A, transpose_B, overwrite) ==
    LET a == Op(h[A], transpose_A)
        b == Op(h[B], transpose_B)
    IN IF Cols(a) = Rows(b) /\ Rows(h[C]) = Rows(a) /\ Cols(h[C]) = Cols(b)
       THEN {Ok([h EXCEPT ![C] = IF overwrite THEN MatMul(a, b)
                                 ELSE MatAdd(h[C], MatMul(a, b))], NoMatrix)}
       ELSE {Fail(h, "shape_mismatch")}

\* The accelerator backend bounds the kernel's size by a property of the
\* device, which the program does not fix: either outcome is possible.
convolve_compute(h, backend, X, W, Y, flip, overwrite, stride_x, stride_y) ==
    IF Rows(h[W]) % 2 = 0 \/ Cols(h[W]) % 2 = 0
    THEN {Fail(h, "even_sized_kernel")}
    ELSE IF \/ Rows(h[Y]) # CeilDiv(Rows(h[X]), stride_y)
            \/ Cols(h[Y]) # CeilDiv(Cols(h[X]), stride_x)
    THEN {Fail(h, "shape_mismatch")}
    ELSE {Ok([h EXCEPT ![Y] = Convolution(h[X], h[W], h[Y], flip, overwrite,
                                          stride_x, stride_y)], NoMatrix)}
         \cup (IF backend = "VIENNACL" THEN {Fail(h, "device_resource_limit")}
               ELSE {})

\* implementation::<module><backend, Matrix>::compute(args...)
ComputeOutcomes(inv, h) ==
    LET a == inv.args
    IN CASE inv.module = "add" -> add_compute(h, a[1], a[2], a[3], a[4], a[5])
         [] inv.module = "scale" -> scale_compute(h, a[1], a[2], a[3])
         [] inv.module = "elementwise_product" ->
               elementwise_product_compute(h, a[1], a[2], a[3])
         [] inv.module = "elementwise_square" ->
               IF Len(a) = 1 THEN elementwise_square_compute(h, a[1])
               ELSE elementwise_square_compute_result(h, a[1], a[2])
         [] inv.module = "matrix_product" ->
               matrix_product_compute(h, a[1], a[2], a[3], a[4], a[5], a[6])
         [] inv.module = "convolve" ->
               convolve_compute(h, inv.backend, a[1], a[2], a[3], a[4], a[5],
                                a[6], a[7])

\* The container compute writes, 0 when it writes none.
OutputOf(inv) ==
    CASE inv.module = "scale" -> inv.args[2]
      [] inv.module = "elementwise_square" ->
            IF Len(inv.args) = 1 THEN 0 ELSE inv.args[2]
      [] OTHER -> inv.args[3]

\* ------------------------------------------------------ a dispatch call
Result(trace, o) ==
    [trace |-> trace, status |-> o.status, error |-> o.error,
     heap |-> o.heap, ret |-> o.ret]

\* A body that calls compute again when it fails.
Forward_retrying(inv, h) ==
    UNION {IF o.status = "failed"
           THEN {Result(<<inv, inv>>, o2) : o2 \in ComputeOutcomes(inv, h)}
           ELSE {Result(<<inv>>, o)} : o \in ComputeOutcomes(inv, h)}

\* The body of every dispatch function: one compute call and nothing
\* around it, so what compute does and reports is what the call does and
\* reports.
Forward(inv, h) ==
    {Result(<<inv>>, o) : o \in ComputeOutcomes(inv, h)}

\* The invocation the build makes of an accepted request.
InvocationOf(req) ==
    Instantiate(req.op, ResolveBackend(req.tag), Bind(req.op, req.args))

NoRequest == [op |-> "none", tag |-> NoBackend, args |-> << >>]

NoCall ==
    [req |-> NoRequest, pre |-> InitialHeap, trace |-> << >>,
     status |-> "none", error |-> "none", ret |-> NoMatrix]

Rejected(req, h) ==
    [req |-> req, pre |-> h, trace |-> << >>, status |-> "rejected",
     error |-> "none", ret |-> NoMatrix]

\* ------------------------------------------------------------ the caller
Tags == Backends \cup {NoBackend}

\* The containers of a call: inputs, then an output apart from the inputs
\* (what a backend does when its output is also an input is its own affair).
Operands1 == {<<m>> : m \in Handles}
Operands2 == {<<a, b>> : a \in Handles, b \in Handles} \ {<<a, a>> : a \in Handles}
Operands3 ==
    {o \in {<<a, b, c>> : a \in Handles, b \in Handles, c \in Handles} :
        o[3] # o[1] /\ o[3] # o[2]}

\* The trailing arguments a caller may write: the first k of a full list.
Prefixes(full) == {SubSeq(full, 1, k) : k \in 0 .. Len(full)}

CoefficientArgs == UNION {Prefixes(<<x, y>>) : x \in Scalars, y \in Scalars}
ScaleArgs == UNION {Prefixes(<<x>>) : x \in Scalars}
ProductArgs ==
    UNION {Prefixes(<<ta, tb, ow>>) : ta \in BOOLEAN, tb \in BOOLEAN, ow \in BOOLEAN}
ConvolveArgs ==
    UNION {Prefixes(<<f, ow, sx, sy>>) :
              f \in BOOLEAN, ow \in BOOLEAN, sx \in Strides, sy \in Strides}

Request(op, tag, args) == [op |-> op, tag |-> tag, args |-> args]

NoThread ==
    [pc |-> "idle", req |-> NoRequest, snap |-> InitialHeap,
     status |-> "none", error |-> "none", ret |-> NoMatrix, computes |-> 0]

\* The builds: the capability flag, the default backend of the Core
\* module and the backends the build has implementation modules for.
InitBuild ==
    /\ HAVE_LINALG_LIB \in BOOLEAN
    /\ default_backend \in Backends
    /\ available \in (SUBSET Backends) \ {{}}

Init ==
    /\ InitBuild
    /\ heap = InitialHeap
    /\ last = NoCall
    /\ thr = [t \in Callers |-> NoThread]

\* One call of a dispatch function, from the call expression to its
\* return: rejected by the build, or run as the body's compute call.
Call(req) ==
    /\ IF Compiles(req)
       THEN \E r \in Forward(InvocationOf(req), heap) :
               /\ heap' = r.heap
               /\ last' = [req |-> req, pre |-> heap, trace |-> r.trace,
                           status |-> r.status, error |-> r.error,
                           ret |-> r.ret]
       ELSE /\ heap' = heap
            /\ last' = Rejected(req, heap)
    /\ UNCHANGED <<HAVE_LINALG_LIB, default_backend, available, thr>>

Add ==
    /\ last.req.op = "none"
    /\ \E tag \in Tags, o \in Operands3, s \in CoefficientArgs :
          Call(Request("add", tag, o \o s))

Subtract ==
    /\ last.req.op = "none"
    /\ \E tag \in Tags, o \in Operands3, s \in CoefficientArgs :
          Call(Request("subtract", tag, o \o s))

Scale ==
    /\ last.req.op = "none"
    /\ \E tag \in Tags, o \in Operands2, s \in ScaleArgs :
          Call(Request("scale", tag, o \o s))

ElementwiseProduct ==
    /\ last.req.op = "none"
    /\ \E tag \in Tags, o \in Operands3 :
          Call(Request("elementwise_product", tag, o))

ElementwiseSquare ==
    /\ last.req.op = "none"
    /\ \E tag \in Tags, o \in Operands1 :
          Call(Request("elementwise_square", tag, o))

ElementwiseSquareResult ==
    /\ last.req.op = "none"
    /\ \E tag \in Tags, o \in Operands2 :
          Call(Request("elementwise_square_result", tag, o))

MatrixProduct ==
    /\ last.req.op = "none"
    /\ \E tag \in Tags, o \in Operands3, s \in ProductArgs :
          Call(Request("matrix_product", tag, o \o s))

Convolve ==
    /\ last.req.op = "none"
    /\ \E tag \in Tags, o \in Operands3, s \in ConvolveArgs :
          Call(Request("convolve", tag, o \o s))

Next ==
    \/ Add
    \/ Subtract
    \/ Scale
    \/ ElementwiseProduct
    \/ ElementwiseSquare
    \/ ElementwiseSquareResult
    \/ MatrixProduct
    \/ Convolve

Spec == Init /\ [][Next]_vars

\* ------------------------------------------------- interleaved callers
\* Several callers, each making one call; a call's steps interleave with
\* the other callers'.  compute reads its operands and later writes its
\* output; the dispatch function returns when compute has.
ConcHandles == {h \in Handles : SameShape(InitialHeap[h], M1234)}

ConcOperands ==
    {<<a, c>> : a \in Handles, c \in ConcHandles} \ {<<a, a>> : a \in Handles}

ConcRequests ==
    {Request("scale", NoBackend, <<o[1], o[2], 0 - 1>>) : o \in ConcOperands}
    \cup {Request("matrix_product", NoBackend,
                  <<o[1], o[1], o[2], FALSE, FALSE, FALSE>>) :
             o \in {p \in ConcOperands : p[1] \in ConcHandles}}

\* The containers compute reads.
InputsOf(inv) ==
    CASE inv.module \in {"scale", "elementwise_square"} -> {inv.args[1]}
      [] OTHER -> {inv.args[1], inv.args[2]}

InitConc ==
    /\ HAVE_LINALG_LIB \in BOOLEAN
    /\ default_backend = "EIGEN3"
    /\ available = {"EIGEN3", "VIENNACL"}
    /\ heap = InitialHeap
    /\ last = NoCall
    /\ thr = [t \in Callers |-> NoThread]

\* The caller reaches its call expression.
Begin(t) ==
    /\ thr[t].pc = "idle"
    /\ \E req \in ConcRequests :
          thr' = [thr EXCEPT ![t].req = req,
                             ![t].pc = IF Compiles(req) THEN "called"
                                       ELSE "rejected"]
    /\ UNCHANGED <<HAVE_LINALG_LIB, default_backend, available, heap, last>>

\* The body calls compute, which reads its operands.
ComputeRead(t) ==
    /\ thr[t].pc = "called"
    /\ thr' = [thr EXCEPT ![t].pc = "computing", ![t].snap = heap,
                          ![t].computes = @ + 1]
    /\ UNCHANGED <<HAVE_LINALG_LIB, default_backend, available, heap, last>>

\* compute writes its output, or fails.
ComputeWrite(t) ==
    /\ thr[t].pc = "computing"
    /\ \E o \in ComputeOutcomes(InvocationOf(thr[t].req), thr[t].snap) :
          LET out == OutputOf(InvocationOf(thr[t].req))
          IN /\ heap' = IF out = 0 THEN heap
                        ELSE [heap EXCEPT ![out] = o.heap[out]]
             /\ thr' = [thr EXCEPT ![t].pc = "computed",
                                   ![t].status = o.status,
                                   ![t].error = o.error, ![t].ret = o.ret]
    /\ UNCHANGED <<HAVE_LINALG_LIB, default_backend, available, last>>

Returns_early(t) == thr[t].pc \in {"called", "computing", "computed"}

\* The body ends after its compute statement: the call is synchronous.
Returns(t) == thr[t].pc = "computed"

Return(t) ==
    /\ Returns(t)
    /\ thr' = [thr EXCEPT ![t].pc = "returned"]
    /\ UNCHANGED <<HAVE_LINALG_LIB, default_backend, available, heap, last>>

NextConc ==
    \E t \in Callers :
        \/ Begin(t)
        \/ ComputeRead(t)
        \/ ComputeWrite(t)
        \/ Return(t)

SpecConc == InitConc /\ [][NextConc]_vars


\* ================================================================ claims
\* What the caller wrote, read off the recorded request: argument k of the
\* call expression, or d when the caller left it out.
Arg(k, d) == IF Len(last.req.args) >= k THEN last.req.args[k] ELSE d

\* The backend the caller asked for: its explicit tag, else the build's
\* default.
Requested == IF last.req.tag # NoBackend THEN last.req.tag ELSE default_backend

Ran == last.status \in {"ok", "failed"}

\* What the call left behind, in the shape Forward reports it.
Observed ==
    [trace |-> last.trace, status |-> last.status, error |-> last.error,
     heap |-> heap, ret |-> last.ret]

RECURSIVE InnerProduct(_, _, _)
InnerProduct(u, v, n) ==
    IF n = 0 THEN 0 ELSE u[n] * v[n] + InnerProduct(u, v, n - 1)

Squares(M) == [i \in 1 .. Rows(M) |-> [j \in 1 .. Cols(M) |-> M[i][j] * M[i][j]]]

\* C1: a subtract call that runs leaves every container, the reported
\* status and the returned value exactly as add(A, B, C, alpha, -beta) run
\* from the same initial state does, and the only module it invokes is add.
C1_SubtractIsAddOfNegatedBeta ==
    (last.req.op = "subtract" /\ Ran) =>
        LET asAdd == Request("add", last.req.tag,
                             <<last.req.args[1], last.req.args[2],
                               last.req.args[3], Arg(4, 1), 0 - Arg(5, 1)>>)
        IN /\ Compiles(asAdd)
           /\ Observed \in Forward(InvocationOf(asAdd), last.pre)
           /\ \A k \in 1 .. Len(last.trace) : last.trace[k].module = "add"

C1_Witness ==
    /\ last.req.op = "subtract"
    /\ last.status = "ok"
    /\ last.req.args = <<1, 2, 3, 1, 1>>
    /\ heap[3] = << <<0 - 4, 0 - 4>>, <<0 - 4, 0 - 4>> >>

\* C2: after add returns normally every coefficient of C is
\* alpha*A[i,j] + beta*B[i,j], an omitted alpha or beta counting as 1;
\* conformable operands never fail; [[1,2],[3,4]] + [[5,6],[7,8]] with
\* both omitted is [[6,8],[10,12]].
C2_AddIsLinearCombination ==
    (last.req.op = "add" /\ Ran) =>
        LET A == last.pre[last.req.args[1]]
            B == last.pre[last.req.args[2]]
            C == last.pre[last.req.args[3]]
        IN /\ (SameShape(A, B) /\ SameShape(A, C)) => last.status = "ok"
           /\ last.status = "ok" =>
                 /\ SameShape(heap[last.req.args[3]], A)
                 /\ \A i \in 1 .. Rows(A), j \in 1 .. Cols(A) :
                       heap[last.req.args[3]][i][j]
                           = Arg(4, 1) * A[i][j] + Arg(5, 1) * B[i][j]
           /\ (last.status = "ok" /\ A = M1234 /\ B = M5678
               /\ Len(last.req.args) = 3) =>
                 heap[last.req.args[3]] = << <<6, 8>>, <<10, 12>> >>

C2_Witness ==
    /\ last.req.op = "add"
    /\ last.status = "ok"
    /\ last.req.args = <<1, 2, 3>>
    /\ heap[3] = << <<6, 8>>, <<10, 12>> >>

\* C3: after matrix_product returns normally, C is op(A)*op(B) when
\* overwrite is true or omitted, and C_before + op(A)*op(B) when overwrite
\* is false, for every value of the two transpose flags.
C3_MatrixProductOverwriteOrAccumulate ==
    (last.req.op = "matrix_product" /\ last.status = "ok") =>
        LET A == last.pre[last.req.args[1]]
            B == last.pre[last.req.args[2]]
            Cb == last.pre[last.req.args[3]]
            Ca == heap[last.req.args[3]]
            tA == Arg(4, FALSE)
            tB == Arg(5, FALSE)
            ow == Arg(6, TRUE)
            n == IF tA THEN Rows(A) ELSE Cols(A)
            rowA(i) == [k \in 1 .. n |-> IF tA THEN A[k][i] ELSE A[i][k]]
            colB(j) == [k \in 1 .. n |-> IF tB THEN B[j][k] ELSE B[k][j]]
        IN /\ SameShape(Ca, Cb)
           /\ \A i \in 1 .. Rows(Ca), j \in 1 .. Cols(Ca) :
                 Ca[i][j] = (IF ow THEN 0 ELSE Cb[i][j])
                            + InnerProduct(rowA(i), colB(j), n)

C3_Witness ==
    /\ last.req.op = "matrix_product"
    /\ last.status = "ok"
    /\ last.req.args = <<1, 2, 3, TRUE, FALSE, FALSE>>
    /\ heap[3] = << <<27, 31>>, <<38, 46>> >>

\* C4: every compute invocation of a call runs on the backend the caller
\* asked for (its explicit tag, else the build's one default); when the
\* build has no implementation module for that backend the call is
\* rejected, no compute runs and no container changes.
C4_BackendIsRequestedOrRejected ==
    (last.req.op # "none") =>
        /\ \A k \in 1 .. Len(last.trace) : last.trace[k].backend = Requested
        /\ Ran => Len(last.trace) >= 1
        /\ Requested \notin available =>
              /\ last.status = "rejected"
              /\ last.trace = << >>
              /\ heap = last.pre

C4_Witness ==
    /\ last.req.op = "add"
    /\ last.req.tag = "VIENNACL"
    /\ default_backend = "EIGEN3"
    /\ available = {"EIGEN3", "VIENNACL"}
    /\ last.status = "ok"
    /\ last.trace[1].backend = "VIENNACL"

\* C5: without the capability flag every operation but add is rejected by
\* the build (no compute runs, no container changes) while add is
\* accepted; with the flag every operation is accepted (given all its
\* arguments and a backend the build has).
C5_FeatureGate ==
    (last.req.op # "none") =>
        /\ (~HAVE_LINALG_LIB /\ last.req.op # "add") =>
              /\ last.status = "rejected"
              /\ last.trace = << >>
              /\ heap = last.pre
        /\ (/\ HAVE_LINALG_LIB \/ last.req.op = "add"
            /\ Requested \in available
            /\ Len(last.req.args) = NumParams(last.req.op)) => Ran

C5_Witness ==
    /\ ~HAVE_LINALG_LIB
    /\ last.req.op = "matrix_product"
    /\ Requested \in available
    /\ last.status = "rejected"
    /\ heap = InitialHeap

\* C6: the container elementwise_square(m) returns and the coefficients
\* elementwise_square(m, result) writes into result are the same, position
\* by position, and both are m[i,j]^2.
C6_ElementwiseSquareFormsAgree ==
    /\ (last.req.op = "elementwise_square" /\ Ran) =>
          /\ last.status = "ok"
          /\ last.ret = Squares(last.pre[last.req.args[1]])
          /\ \A result \in Handles \ {last.req.args[1]} :
                \A r \in Forward(elementwise_square_result(
                                    Requested, last.req.args[1], result),
                                 last.pre) :
                    r.status = "ok" => r.heap[result] = last.ret
    /\ (last.req.op = "elementwise_square_result" /\ last.status = "ok") =>
          /\ heap[last.req.args[2]] = Squares(last.pre[last.req.args[1]])
          /\ \A r \in Forward(elementwise_square(Requested, last.req.args[1]),
                              last.pre) :
                r.status = "ok" /\ r.ret = heap[last.req.args[2]]
          /\ last.pre[last.req.args[1]] = M1234 =>
                heap[last.req.args[2]] = << <<1, 4>>, <<9, 16>> >>

C6_Witness ==
    /\ last.req.op = "elementwise_square_result"
    /\ last.status = "ok"
    /\ last.req.args = <<1, 3>>
    /\ heap[3] = << <<1, 4>>, <<9, 16>> >>


\* C7 as stated: a coefficient the caller omits is 1 in add, subtract and
\* scale alike, so scale(A, B) is accepted and yields B = A.
C7_OmittedCoefficientIsOneEverywhere ==
    /\ (last.req.op \in {"add", "subtract"} /\ Ran) =>
          /\ last.trace[1].args[4] = Arg(4, 1)
          /\ last.trace[1].args[5]
                = (IF last.req.op = "add" THEN Arg(5, 1) ELSE 0 - Arg(5, 1))
    /\ (last.req.op = "scale" /\ HAVE_LINALG_LIB /\ Requested \in available) =>
          /\ Ran
          /\ last.status = "ok" =>
                LET A == last.pre[last.req.args[1]]
                IN \A i \in 1 .. Rows(A), j \in 1 .. Cols(A) :
                      heap[last.req.args[2]][i][j] = Arg(3, 1) * A[i][j]

\* C7, amended: a coefficient the caller omits is 1 in add and subtract.
\* scale has no default for alpha: scale(A, B) is rejected by the build,
\* no compute runs and no container changes; scale(A, B, alpha) is accepted
\* and, returning normally, leaves B[i,j] = alpha*A[i,j]
\* (alpha = 2 on [[1,2],[3,4]] gives [[2,4],[6,8]]).
C7_OmittedCoefficientIsOneScaleNeedsAlpha ==
    /\ (last.req.op \in {"add", "subtract"} /\ Ran) =>
          /\ last.trace[1].args[4] = Arg(4, 1)
          /\ last.trace[1].args[5]
                = (IF last.req.op = "add" THEN Arg(5, 1) ELSE 0 - Arg(5, 1))
    /\ (last.req.op = "scale" /\ Len(last.req.args) = 2) =>
          /\ last.status = "rejected"
          /\ last.trace = << >>
          /\ heap = last.pre
    /\ (last.req.op = "scale" /\ Len(last.req.args) = 3
        /\ HAVE_LINALG_LIB /\ Requested \in available) => Ran
    /\ (last.req.op = "scale" /\ last.status = "ok") =>
          LET A == last.pre[last.req.args[1]]
          IN /\ \A i \in 1 .. Rows(A), j \in 1 .. Cols(A) :
                   heap[last.req.args[2]][i][j] = last.req.args[3] * A[i][j]
             /\ (A = M1234 /\ last.req.args[3] = 2) =>
                   heap[last.req.args[2]] = << <<2, 4>>, <<6, 8>> >>

C7_Witness ==
    /\ last.req.op = "scale"
    /\ last.req.args = <<1, 3>>
    /\ HAVE_LINALG_LIB
    /\ Requested \in available
    /\ last.status = "rejected"
    /\ heap = InitialHeap

\* C8: a call whose compute fails reports that failure as compute reported
\* it, after exactly one compute invocation, on the requested backend, with
\* the containers as compute left them; a call whose compute can only fail
\* never returns normally.
C8_FailurePassesThroughUnchanged ==
    /\ last.status = "failed" =>
          /\ Len(last.trace) = 1
          /\ last.trace[1].backend = Requested
          /\ \E o \in ComputeOutcomes(last.trace[1], last.pre) :
                /\ o.status = "failed"
                /\ o.error = last.error
                /\ o.heap = heap
    /\ (/\ Ran
        /\ \A o \in ComputeOutcomes(InvocationOf(last.req), last.pre) :
              o.status = "failed") => last.status = "failed"

C8_Witness ==
    /\ last.req.op = "convolve"
    /\ last.req.args = <<1, 2, 3>>
    /\ last.status = "failed"
    /\ last.error = "even_sized_kernel"
    /\ Len(last.trace) = 1

\* The module and the argument list the claim has compute receive.
Documented(op) ==
    LET a == last.req.args
    IN CASE op = "add" ->
               Invocation("add", Requested,
                          <<a[1], a[2], a[3], Arg(4, 1), Arg(5, 1)>>)
         [] op = "scale" ->
               Invocation("scale", Requested, <<a[1], a[2], a[3]>>)
         [] op = "elementwise_product" ->
               Invocation("elementwise_product", Requested,
                          <<a[1], a[2], a[3]>>)
         [] op = "elementwise_square" ->
               Invocation("elementwise_square", Requested, <<a[1]>>)
         [] op = "elementwise_square_result" ->
               Invocation("elementwise_square", Requested, <<a[1], a[2]>>)
         [] op = "matrix_product" ->
               Invocation("matrix_product", Requested,
                          <<a[1], a[2], a[3], Arg(4, FALSE), Arg(5, FALSE),
                            Arg(6, TRUE)>>)
         [] op = "convolve" ->
               Invocation("convolve", Requested,
                          <<a[1], a[2], a[3], Arg(4, FALSE), Arg(5, TRUE),
                            Arg(6, 1), Arg(7, 1)>>)

\* C10: a call of add, scale, elementwise_product, elementwise_square,
\* matrix_product or convolve that runs makes exactly one compute
\* invocation, on its own module, with the caller's arguments unchanged and
\* in place and the documented default for each one left out.
C10_OneComputeWithArgumentsForwarded ==
    (Ran /\ last.req.op # "subtract") =>
        /\ Len(last.trace) = 1
        /\ last.trace[1].module = Documented(last.req.op).module
        /\ last.trace[1].backend = Requested
        /\ last.trace[1].args = Documented(last.req.op).args

C10_Witness ==
    /\ last.req.op = "convolve"
    /\ last.req.args = <<1, 4, 3>>
    /\ last.status = "ok"
    /\ last.trace = << Invocation("convolve", Requested,
                                  <<1, 4, 3, FALSE, TRUE, 1, 1>>) >>

\* A caller whose call reached its body.
Issued(u) == thr[u].pc \notin {"idle", "rejected"}

\* The output of t's call is no other issued call's output or input, and
\* no other issued call's output is an input of t's.
Apart(t) ==
    \A u \in Callers \ {t} :
        Issued(u) =>
            LET it == InvocationOf(thr[t].req)
                iu == InvocationOf(thr[u].req)
            IN /\ OutputOf(iu) # OutputOf(it)
               /\ OutputOf(iu) \notin InputsOf(it)
               /\ OutputOf(it) \notin InputsOf(iu)

\* C9: a call has returned only after its one compute has completed, and
\* when its output is apart from the other callers' containers the output
\* holds, in every interleaving, what the call produces run alone.
C9_DisjointOutputsAsIfAlone ==
    \A t \in Callers :
        thr[t].pc = "returned" =>
            /\ thr[t].computes = 1
            /\ thr[t].status # "none"
            /\ Apart(t) =>
                  \E o \in ComputeOutcomes(InvocationOf(thr[t].req), InitialHeap) :
                      /\ o.status = thr[t].status
                      /\ o.error = thr[t].error
                      /\ heap[OutputOf(InvocationOf(thr[t].req))]
                            = o.heap[OutputOf(InvocationOf(thr[t].req))]

C9_Witness ==
    /\ thr[1].pc = "returned"
    /\ thr[2].pc = "returned"
    /\ thr[1].req = Request("scale", NoBackend, <<1, 2, 0 - 1>>)
    /\ thr[2].req = Request("matrix_product", NoBackend,
                            <<1, 1, 3, FALSE, FALSE, FALSE>>)
    /\ Apart(1)
    /\ Apart(2)
    /\ heap[2] = << <<0 - 1, 0 - 2>>, <<0 - 3, 0 - 4>> >>
    /\ heap[3] = << <<8, 11>>, <<15, 24>> >>

====
